---- MODULE Spec2Model ----
(***************************************************************************)
(* SwitchBot Hub2 BLE: the manufacturer-data decoder of                    *)
(* src/src/SwitchBotHub2.ts (extractMac, decode) and the scan orchestrator *)
(* of src/src/Scanner.ts (startSensorSampling).                            *)
(*                                                                         *)
(* Representation.  A Buffer is a sequence of bytes (0..255); offset N of  *)
(* the source is index N+1.  A JavaScript string is a sequence of          *)
(* one-character strings.  A JavaScript number holding a temperature is a  *)
(* decimal fixed-point integer: hundredths of a degree before toFixed,     *)
(* tenths of a degree after parseFloat(toFixed(1)).  The doubles of the    *)
(* source differ from these decimals by less than one unit in the last     *)
(* place, which toFixed(1) never sees: the Celsius value is a multiple of  *)
(* 0.1 and the Fahrenheit value a multiple of 0.02.                        *)
(***************************************************************************)
EXTENDS Integers, Sequences, FiniteSets, TLC

VARIABLES
    \* ---- decoder harness: one buffer, the two pure functions applied to it
    input,          \* the manufacturer-data buffer handed to the decoder
    decoded,        \* what decode(input) returned, or NotCalled
    mac,            \* what extractMac(input) returned, or Pending
    \* ---- the BLE adapter (noble), shared by every orchestrator
    discoverListeners,  \* noble's listener array for 'discover' (owners, in order)
    stateListeners,     \* noble's listener array for 'stateChange' (owners, in order)
    adapterScanning,    \* TRUE after startScanning, FALSE after stopScanning
    adapterState,       \* the power state the adapter reported last
    \* ---- per orchestrator (one startSensorSampling call each)
    started,        \* startSensorSampling has been called
    intervalArmed,  \* the setInterval timer intervalId is live
    windowTimers,   \* number of pending setTimeout(scanDurationMs) timers
    seenDevices,    \* the closure's Set of MAC strings
    \* ---- the singleton scanner SwitchBotHub2 (class SwitchBotHub2Class)
    hubScanning,        \* this.scanning
    hubPoweredOn,       \* this.isNoblePoweredOn
    hubSeen,            \* this.seenDevices
    hubIntervals,       \* the live setInterval timers, in the order they were armed
    hubScanInterval,    \* this.scanInterval: 0 for null, else an index of hubIntervals
    hubTimeouts,        \* the pending setTimeout timers, in the order they were set up
                        \* (their delays are not kept: time is not modelled)
    hubScanDuration,    \* this.scanDuration: 0 for null, an index of hubTimeouts,
                        \* or -1 for a timer that has fired
    hubStateListeners,  \* the 'stateChange' closures startScanning registered
    hubStep,            \* what the singleton did during the last step (observation)
    \* ---- observation of the run (not program state)
    stopReturned,   \* the stop function has returned at least once
    windowCalls,    \* the MACs the callback was invoked for since the last seenDevices.clear()
    delivered,      \* the readings the callback received during the last step
    oldTimers,      \* the pending window timers set up no later than the last interval tick
    staleTimers,    \* the pending window timers set up before the last stop call
    lastOp          \* the last operation performed, with its input

decoderVars == <<input, decoded, mac>>
nobleVars   == <<discoverListeners, stateListeners, adapterScanning, adapterState>>
orchVars    == <<started, intervalArmed, windowTimers, seenDevices>>
obsVars     == <<stopReturned, windowCalls, delivered, oldTimers, staleTimers, lastOp>>
hubVars     == <<hubScanning, hubPoweredOn, hubSeen, hubIntervals, hubScanInterval,
                 hubTimeouts, hubScanDuration, hubStateListeners, hubStep>>
vars        == <<decoderVars, nobleVars, orchVars, hubVars, obsVars>>

(***************************************************************************)
(* Bounds of the model.                                                    *)
(***************************************************************************)
MaxLen == 19        \* longest buffer of the decoder harness (the samples' length)
MaxTimers == 2      \* pending window timers per orchestrator / of the singleton
MaxIntervals == 2   \* live interval timers, and 'stateChange' closures, of the singleton

(***************************************************************************)
(* JavaScript primitives used by the decoder.                              *)
(***************************************************************************)
Byte == 0..255

Undefined == <<"undefined">>    \* the value undefined: no string equals it
Null == [kind |-> "null"]       \* the value null returned by decode
NotCalled == [kind |-> "notcalled"]

Min(a, b) == IF a < b THEN a ELSE b

\* a & b on non-negative integers
RECURSIVE BitAnd(_, _)
BitAnd(a, b) ==
    IF a = 0 \/ b = 0 THEN 0
    ELSE (a % 2) * (b % 2) + 2 * BitAnd(a \div 2, b \div 2)

\* buf[i], i a 0-based offset inside the buffer
At(buf, i) == buf[i + 1]

\* buf.subarray(start, end) / buf.slice(start, end): both ends clamped to the length
Subarray(buf, start, end) ==
    SubSeq(buf, Min(start, Len(buf)) + 1, Min(end, Len(buf)))

HexDigits == <<"0", "1", "2", "3", "4", "5", "6", "7",
               "8", "9", "a", "b", "c", "d", "e", "f">>

\* n.toString(16): no leading zeros
RECURSIVE ToString16(_)
ToString16(n) ==
    IF n < 16 THEN <<HexDigits[n + 1]>>
    ELSE ToString16(n \div 16) \o <<HexDigits[(n % 16) + 1]>>

\* s.padStart(n, c)
RECURSIVE PadStart(_, _, _)
PadStart(s, n, c) == IF Len(s) >= n THEN s ELSE PadStart(<<c>> \o s, n, c)

\* strs.join(sep)
RECURSIVE Join(_, _)
Join(strs, sep) ==
    IF Len(strs) = 0 THEN <<>>
    ELSE IF Len(strs) = 1 THEN strs[1]
    ELSE strs[1] \o sep \o Join(Tail(strs), sep)

\* buf.toString('hex'): two lowercase digits per byte
RECURSIVE BufferToHex(_)
BufferToHex(buf) ==
    IF Len(buf) = 0 THEN <<>>
    ELSE <<HexDigits[(buf[1] \div 16) + 1], HexDigits[(buf[1] % 16) + 1]>>
         \o BufferToHex(Tail(buf))

\* s.startsWith(p)
StartsWith(s, p) == Len(s) >= Len(p) /\ SubSeq(s, 1, Len(p)) = p

\* n.toString() of a non-negative integer
RECURSIVE ToString10(_)
ToString10(n) ==
    IF n < 10 THEN <<HexDigits[n + 1]>>
    ELSE ToString10(n \div 10) \o <<HexDigits[(n % 10) + 1]>>

\* x.toFixed(1) cutting the second decimal off instead of rounding
ToFixed1Truncated(x) ==
    LET a == IF x < 0 THEN -x ELSE x
        n == a \div 10
    IN  (IF x < 0 THEN <<"-">> ELSE <<>>)
        \o ToString10(n \div 10) \o <<".">> \o <<HexDigits[(n % 10) + 1]>>

\* x.toFixed(1), x in hundredths: the sign is split off, the magnitude is rounded
\* to the nearest tenth (the larger one on a tie) and printed with one decimal
ToFixed1(x) ==
    LET a == IF x < 0 THEN -x ELSE x
        n == (a + 5) \div 10
    IN  (IF x < 0 THEN <<"-">> ELSE <<>>)
        \o ToString10(n \div 10) \o <<".">> \o <<HexDigits[(n % 10) + 1]>>

DigitValue(c) == CHOOSE d \in 0..15 : HexDigits[d + 1] = c

RECURSIVE DigitsValue(_, _)
DigitsValue(s, base) ==
    IF Len(s) = 0 THEN 0
    ELSE base * DigitsValue(SubSeq(s, 1, Len(s) - 1), base) + DigitValue(s[Len(s)])

\* parseFloat(s) of a string printed by toFixed(1); the result is in tenths
ParseFloat(s) ==
    LET neg  == Len(s) > 0 /\ s[1] = "-"
        body == IF neg THEN Tail(s) ELSE s
        dot  == CHOOSE i \in 1..Len(body) : body[i] = "."
        whole == DigitsValue(SubSeq(body, 1, dot - 1), 10)
        frac  == DigitsValue(SubSeq(body, dot + 1, Len(body)), 10)
    IN  (IF neg THEN -1 ELSE 1) * (10 * whole + frac)

(***************************************************************************)
(* The payload decoder, src/src/SwitchBotHub2.ts.                          *)
(***************************************************************************)
MANUFACTURER_ID == <<"6", "9", "0", "9">>

\* the mapping callback without padStart
MacOctetUnpadded(b) == ToString16(b)

\* the mapping callback of extractMac: b => b.toString(16).padStart(2, '0')
MacOctet(b) == PadStart(ToString16(b), 2, "0")

ExtractMac(manufacturerData) ==
    IF Len(manufacturerData) < 8 THEN Undefined
    ELSE LET macBytes == Subarray(manufacturerData, 2, 8)
         IN  Join([i \in 1..Len(macBytes) |-> MacOctet(macBytes[i])], <<":">>)

\* the guard comparing the first byte of the manufacturer ID only
RejectedOnFirstByte(manufacturerData) ==
    \/ Len(manufacturerData) < 18
    \/ BufferToHex(Subarray(manufacturerData, 0, 1)) # SubSeq(MANUFACTURER_ID, 1, 2)

\* the guard of decode: TRUE when the buffer is rejected
Rejected(manufacturerData) ==
    \/ Len(manufacturerData) < 18
    \/ BufferToHex(Subarray(manufacturerData, 0, 2)) # MANUFACTURER_ID

\* the sign as the README words it: negative when the bit is set
TempSignInverted(tempBytes) == IF BitAnd(tempBytes[2], 128) # 0 THEN -1 ELSE 1

\* tempSign of decode
TempSign(tempBytes) == IF BitAnd(tempBytes[2], 128) # 0 THEN 1 ELSE -1

\* tempC with the two temperature bytes taken in the other order
TempCSwapped(tempBytes) ==
    TempSign(tempBytes)
    * (100 * BitAnd(tempBytes[1], 127) + (100 * BitAnd(tempBytes[2], 15)) \div 10)

\* tempC of decode, in hundredths of a degree
TempC(tempBytes) ==
    TempSign(tempBytes)
    * (100 * BitAnd(tempBytes[2], 127) + (100 * BitAnd(tempBytes[1], 15)) \div 10)

\* tempF of decode, in hundredths of a degree
TempF(tempC) == (tempC * 9) \div 5 + 3200

Humidity(tempBytes) == BitAnd(tempBytes[3], 127)

\* the light level with a mask one bit too wide
LightLevelWide(status) == BitAnd(status, 63)

LightLevel(status) == BitAnd(status, 31)

Decode(manufacturerData) ==
    IF Rejected(manufacturerData) THEN Null
    ELSE LET data == Subarray(manufacturerData, 2, Len(manufacturerData))
             status == At(data, 12)
             tempBytes == Subarray(data, 13, 16)
         IN  IF Len(tempBytes) < 3 THEN Null
             ELSE [kind |-> "reading",
                   temperatureC |-> ParseFloat(ToFixed1(TempC(tempBytes))),
                   temperatureF |-> ParseFloat(ToFixed1(TempF(TempC(tempBytes)))),
                   humidityPercent |-> Humidity(tempBytes),
                   lightLevel |-> LightLevel(status),
                   macAddress |-> ExtractMac(manufacturerData)]

(***************************************************************************)
(* Decoder harness: the buffers the two pure functions are applied to.     *)
(***************************************************************************)
\* the first sample of src/tests/SwitchBotHub2.test.ts:
\* 6909 c9165c5551a6 00ff67ee84b9 8a 04 8e ab 00
Sample1 == <<105, 9, 201, 22, 92, 85, 81, 166, 0, 255,
             103, 238, 132, 185, 138, 4, 142, 171, 0>>
\* 6909 e4de3a66c7a6 00ff67ee84b9 8a 04 8f ab 00
Sample2 == <<105, 9, 228, 222, 58, 102, 199, 166, 0, 255,
             103, 238, 132, 185, 138, 4, 143, 171, 0>>
\* 6909 c9165c5551a6 00ff67ee84b9 8a 04 8c ab 00
Sample3 == <<105, 9, 201, 22, 92, 85, 81, 166, 0, 255,
             103, 238, 132, 185, 138, 4, 140, 171, 0>>
\* 6909 e4de3a66c7a6 00ff67ef0bb0 82 08 91 ad 00
Sample4 == <<105, 9, 228, 222, 58, 102, 199, 166, 0, 255,
             103, 239, 11, 176, 130, 8, 145, 173, 0>>
\* the buffer of the README's unit test example:
\* 6909 c9165c555178 00ff67ee84b9 8a 04 8e ab 00
ReadmeSample == <<105, 9, 201, 22, 92, 85, 81, 120, 0, 255,
                  103, 238, 132, 185, 138, 4, 142, 171, 0>>

\* the first len bytes of Sample1, continued with zero bytes
Fill(len) == [i \in 1..len |-> IF i <= Len(Sample1) THEN Sample1[i] ELSE 0]

\* buf with the byte at offset off replaced by b (buf itself when it is shorter)
With(buf, off, b) == IF off < Len(buf) THEN [buf EXCEPT ![off + 1] = b] ELSE buf

EdgeBytes == {0, 31, 127, 128, 255}

\* every length, with the right prefix and with wrong ones
LengthInputs ==
    { With(With(Fill(len), 0, p[1]), 1, p[2]) :
        len \in 0..MaxLen,
        p \in {<<105, 9>>, <<9, 105>>, <<105, 8>>, <<104, 9>>, <<0, 0>>, <<105, 144>>} }

\* every value of each prefix byte
PrefixInputs ==
    { With(Fill(MaxLen), off, b) : off \in {0, 1}, b \in Byte }

\* every temperature encoding: all of byte 16, every low nibble of byte 15
TempInputs ==
    { With(With(Fill(len), 15, b15), 16, b16) :
        len \in {18}, b15 \in (0..15) \cup {165, 240, 255}, b16 \in Byte }

\* every status byte and every humidity byte
StatusInputs ==
    { With(With(Fill(MaxLen), 14, b14), 17, b17) : b14 \in Byte, b17 \in EdgeBytes }
    \cup
    { With(With(Fill(MaxLen), 14, b14), 17, b17) : b14 \in EdgeBytes, b17 \in Byte }

\* every value of each MAC byte, in the shortest buffer holding a MAC
MacInputs ==
    { With(Fill(len), off, b) : len \in {8}, off \in 2..7, b \in Byte }

Inputs ==
    {Sample1, Sample2, Sample3, Sample4, ReadmeSample}
    \cup LengthInputs \cup PrefixInputs \cup TempInputs \cup StatusInputs \cup MacInputs

Pending == <<"pending">>    \* extractMac has not been applied yet

(***************************************************************************)
(* The BLE adapter (noble) as the orchestrator uses it: an EventEmitter    *)
(* with listener arrays for 'discover' and 'stateChange', and the          *)
(* startScanning / stopScanning commands.                                  *)
(***************************************************************************)
Orchs == {1, 2}         \* the startSensorSampling calls the model can tell apart
Solo == {1}             \* the orchestrator of the single-orchestrator runs

AdapterStates == {"poweredOn", "poweredOff"}

\* a peripheral's advertisement: manufacturerData is a Buffer or undefined
NoData == [present |-> FALSE, data |-> <<>>]
Adv(buf) == [present |-> TRUE, data |-> buf]

Advertisements ==
    { NoData,
      Adv(Sample1),                     \* decodable, MAC c9:16:5c:55:51:a6
      Adv(Sample3),                     \* decodable, the same MAC, another reading
      Adv(Sample2),                     \* decodable, MAC e4:de:3a:66:c7:a6
      Adv(Subarray(Sample1, 0, 10)),    \* 6909 and the first MAC, too short to decode
      Adv(Subarray(Sample1, 0, 2)),     \* 6909 alone
      Adv(Subarray(Sample1, 0, 1)),     \* one byte
      Adv(With(Sample1, 0, 76)) }       \* another manufacturer's data

\* emitter.on(event, listener): the listener is appended, duplicates included
AddListener(listeners, owner) == Append(listeners, owner)

\* emitter.removeListener(event, listener): removes the most recently added
\* instance of the listener, nothing when it is not registered
RECURSIVE RemoveListener(_, _)
RemoveListener(listeners, owner) ==
    IF Len(listeners) = 0 THEN listeners
    ELSE IF listeners[Len(listeners)] = owner
         THEN SubSeq(listeners, 1, Len(listeners) - 1)
         ELSE Append(RemoveListener(SubSeq(listeners, 1, Len(listeners) - 1), owner),
                     listeners[Len(listeners)])

\* emitter.removeListener used where removeAllListeners is meant
RemoveNewestListener(listeners) == SubSeq(listeners, 1, Len(listeners) - 1)

\* emitter.removeAllListeners(event)
RemoveAllListeners(listeners) == <<>>

Range(f) == { f[i] : i \in DOMAIN f }

(***************************************************************************)
(* startSensorSampling, src/src/Scanner.ts.  The handlers are functions of *)
(* the state st they read and write: st.listeners (noble's 'discover'      *)
(* array), st.scanning, and per orchestrator st.timers, st.seen, st.calls, *)
(* st.delivered, st.old and st.stale.  Timers of one duration fire in the  *)
(* order they were set up, so st.old and st.stale count the oldest of the   *)
(* st.timers pending ones.                                                 *)
(***************************************************************************)
\* seenDevices.has(mac) never consulted
NeverSeen(seen, m) == FALSE

\* seenDevices.has(mac)
AlreadySeen(seen, m) == m \in seen

\* the prefix test of onDiscover:
\* manufacturerData?.toString('hex').startsWith('6909')
HasPrefix(adv) == adv.present /\ StartsWith(BufferToHex(adv.data), MANUFACTURER_ID)

OnDiscover(st, o, adv) ==
    IF ~HasPrefix(adv) THEN st
    ELSE LET m == ExtractMac(adv.data)
         IN  IF m = Undefined \/ AlreadySeen(st.seen[o], m) THEN st
             ELSE LET st1 == [st EXCEPT !.seen[o] = @ \cup {m}]
                      d == Decode(adv.data)
                  IN  IF d.kind # "null"
                      THEN [st1 EXCEPT !.delivered[o] = Append(@, d),
                                       !.calls[o] = Append(@, m)]
                      ELSE st1

SampleOnce(st, o) ==
    [st EXCEPT !.seen[o] = {},
               !.calls[o] = <<>>,
               !.listeners = AddListener(@, o),
               !.scanning = TRUE,
               !.timers[o] = @ + 1]

\* the callback without its removeListener call
WindowEndKeepsListener(st, o) ==
    [st EXCEPT !.scanning = FALSE,
               !.timers[o] = @ - 1,
               !.old[o] = IF @ > 0 THEN @ - 1 ELSE 0,
               !.stale[o] = IF @ > 0 THEN @ - 1 ELSE 0]

\* the setTimeout callback of sampleOnce
WindowEnd(st, o) ==
    [st EXCEPT !.scanning = FALSE,
               !.listeners = RemoveListener(@, o),
               !.timers[o] = @ - 1,
               !.old[o] = IF @ > 0 THEN @ - 1 ELSE 0,
               !.stale[o] = IF @ > 0 THEN @ - 1 ELSE 0]

\* the setInterval callback: sampleOnce; every timer pending after it was set up
\* no later than this tick
OnInterval(st, o) ==
    LET st1 == SampleOnce(st, o)
    IN  [st1 EXCEPT !.old[o] = st1.timers[o]]

\* the 'stateChange' listener registered by startSensorSampling
OnStateChange(st, o, state) ==
    IF state = "poweredOn" THEN SampleOnce(st, o)
    ELSE [st EXCEPT !.scanning = FALSE]

\* noble.emit('discover', peripheral): every registered listener, in order
RECURSIVE EmitDiscover(_, _, _)
EmitDiscover(st, listeners, adv) ==
    IF Len(listeners) = 0 THEN st
    ELSE EmitDiscover(OnDiscover(st, listeners[1], adv), Tail(listeners), adv)

\* noble.emit('stateChange', state): every registered listener, in order
RECURSIVE EmitStateChange(_, _, _)
EmitStateChange(st, listeners, state) ==
    IF Len(listeners) = 0 THEN st
    ELSE EmitStateChange(OnStateChange(st, listeners[1], state), Tail(listeners), state)

\* the state the handlers work on, at the start of a step: nothing delivered yet
Now ==
    [listeners |-> discoverListeners,
     scanning  |-> adapterScanning,
     timers    |-> windowTimers,
     seen      |-> seenDevices,
     calls     |-> windowCalls,
     old       |-> oldTimers,
     stale     |-> staleTimers,
     delivered |-> [o \in Orchs |-> <<>>]]

Becomes(st) ==
    /\ discoverListeners' = st.listeners
    /\ adapterScanning' = st.scanning
    /\ windowTimers' = st.timers
    /\ seenDevices' = st.seen
    /\ windowCalls' = st.calls
    /\ oldTimers' = st.old
    /\ staleTimers' = st.stale
    /\ delivered' = st.delivered

Op(name, o, adv, state) ==
    [op |-> name, orch |-> o, adv |-> adv, state |-> state,
     repeated |-> lastOp.op = name /\ lastOp.orch = o]

\* startSensorSampling(callback, intervalMs, scanDurationMs)
StartSensorSampling(o) ==
    /\ ~started[o]
    /\ started' = [started EXCEPT ![o] = TRUE]
    /\ intervalArmed' = [intervalArmed EXCEPT ![o] = TRUE]
    /\ stateListeners' = AddListener(stateListeners, o)
    /\ Becomes(Now)
    /\ lastOp' = Op("start", o, NoData, "")
    /\ UNCHANGED <<decoderVars, hubVars, adapterState, stopReturned>>

\* the setInterval timer fires: sampleOnce() (the guard keeps the timer count bounded)
IntervalTick(o) ==
    /\ intervalArmed[o]
    /\ windowTimers[o] < MaxTimers
    /\ Becomes(OnInterval(Now, o))
    /\ lastOp' = Op("tick", o, NoData, "")
    /\ UNCHANGED <<decoderVars, hubVars, adapterState, stateListeners, started, intervalArmed,
                   stopReturned>>

\* a setTimeout(scanDurationMs) timer fires
WindowTimeout(o) ==
    /\ windowTimers[o] > 0
    /\ Becomes(WindowEnd(Now, o))
    /\ lastOp' = Op("timeout", o, NoData, "")
    /\ UNCHANGED <<decoderVars, hubVars, adapterState, stateListeners, started, intervalArmed,
                   stopReturned>>

\* the adapter reports a power state (the guard keeps the timer count bounded)
StateChange(state) ==
    /\ state = "poweredOn" =>
           \A i \in DOMAIN stateListeners : windowTimers[stateListeners[i]] < MaxTimers
    /\ adapterState' = state
    /\ Becomes(EmitStateChange(Now, stateListeners, state))
    /\ lastOp' = Op("stateChange", 0, NoData, state)
    /\ UNCHANGED <<decoderVars, hubVars, stateListeners, started, intervalArmed, stopReturned>>

\* the adapter reports an advertisement.  noble delivers 'discover' to whatever
\* listeners are registered, whether or not this process commanded a scan
Discover(adv) ==
    /\ Becomes(EmitDiscover(Now, discoverListeners, adv))
    /\ lastOp' = Op("discover", 0, adv, "")
    /\ UNCHANGED <<decoderVars, hubVars, adapterState, stateListeners, started, intervalArmed,
                   stopReturned>>

\* the stop function returned by startSensorSampling
Stop(o) ==
    /\ started[o]
    /\ intervalArmed' = [intervalArmed EXCEPT ![o] = FALSE]
    /\ Becomes([Now EXCEPT !.scanning = FALSE,
                           !.listeners = RemoveAllListeners(@),
                           !.stale[o] = windowTimers[o]])
    /\ stopReturned' = [stopReturned EXCEPT ![o] = TRUE]
    /\ lastOp' = Op("stop", o, NoData, "")
    /\ UNCHANGED <<decoderVars, hubVars, adapterState, stateListeners, started>>

(***************************************************************************)
(* The singleton scanner, src/src/SwitchBotHub2.ts (startScanning,         *)
(* stopScanning, onBleDiscover, sampleAdvertisements).  Its handlers are   *)
(* functions of the state h they read and write.  Its 'discover' listener  *)
(* onBleDiscover is owner Hub of noble's listener array.                   *)
(***************************************************************************)
Hub == 0

DefaultInterval == 15000
DefaultDuration == 3000

\* an optional value: <<>> when it is undefined, <<v>> when it is v
None == <<>>
Some(v) == <<v>>

\* the ScanOptions a caller can pass: undefined, an object with both fields
\* omitted, with both fields positive, or with both fields zero
ScanOptions ==
    { None,
      Some([interval |-> None, duration |-> None]),
      Some([interval |-> Some(10000), duration |-> Some(500)]),
      Some([interval |-> Some(0), duration |-> Some(0)]) }

\* options?.interval and options?.duration
OptInterval(options) == IF options = None THEN None ELSE options[1].interval
OptDuration(options) == IF options = None THEN None ELSE options[1].duration

\* value ?? fallback: the fallback only for undefined
OrNullish(value, fallback) == IF value = None THEN fallback ELSE value[1]

\* value || fallback: the fallback for undefined and for 0
OrElse(value, fallback) ==
    IF value = None \/ value[1] = 0 THEN fallback ELSE value[1]

\* what the singleton did during a step: the options startScanning was called
\* with, the setInterval and sampleAdvertisements calls made, the 'data' emitted
Idle == [options |-> None, armed |-> <<>>, sampled |-> <<>>, emitted |-> <<>>]

HubNow ==
    [listeners    |-> discoverListeners,
     adapter      |-> adapterScanning,
     scanning     |-> hubScanning,
     poweredOn    |-> hubPoweredOn,
     seen         |-> hubSeen,
     intervals    |-> hubIntervals,
     scanInterval |-> hubScanInterval,
     timeouts     |-> hubTimeouts,
     scanDuration |-> hubScanDuration,
     closures     |-> hubStateListeners,
     step         |-> Idle]

HubBecomes(h) ==
    /\ discoverListeners' = h.listeners
    /\ adapterScanning' = h.adapter
    /\ hubScanning' = h.scanning
    /\ hubPoweredOn' = h.poweredOn
    /\ hubSeen' = h.seen
    /\ hubIntervals' = h.intervals
    /\ hubScanInterval' = h.scanInterval
    /\ hubTimeouts' = h.timeouts
    /\ hubScanDuration' = h.scanDuration
    /\ hubStateListeners' = h.closures
    /\ hubStep' = h.step

\* seq without its element at index k
RemoveAt(seq, k) == SubSeq(seq, 1, k - 1) \o SubSeq(seq, k + 1, Len(seq))

SampleAdvertisements(h, duration) ==
    [h EXCEPT !.seen = {},
              !.listeners = AddListener(@, Hub),
              !.adapter = TRUE,
              !.timeouts = Append(@, "window"),
              !.scanDuration = Len(h.timeouts) + 1,
              !.step.sampled = Append(@, duration)]

\* this.scanInterval = setInterval(this.sampleAdvertisements, interval, duration)
ArmInterval(h, interval, duration) ==
    [h EXCEPT !.intervals = Append(@, [interval |-> interval, duration |-> duration]),
              !.scanInterval = Len(h.intervals) + 1,
              !.step.armed = Append(@, [interval |-> interval, duration |-> duration])]

\* the setTimeout callback of sampleAdvertisements, for the pending timer k
HubWindowEnd(h, k) ==
    [h EXCEPT !.adapter = FALSE,
              !.listeners = RemoveListener(@, Hub),
              !.timeouts = RemoveAt(@, k),
              !.scanDuration = IF @ = k THEN -1 ELSE IF @ > k THEN @ - 1 ELSE @]

\* the 'stateChange' listener startScanning registers, closed over interval and duration
HubOnStateChange(h, closure, state) ==
    IF state = "poweredOn"
    THEN ArmInterval(SampleAdvertisements([h EXCEPT !.poweredOn = TRUE], closure.duration),
                     closure.interval, closure.duration)
    ELSE [h EXCEPT !.poweredOn = FALSE, !.adapter = FALSE]

OnBleDiscover(h, adv) ==
    IF ~HasPrefix(adv) THEN h
    ELSE LET m == ExtractMac(adv.data)
         IN  IF m = Undefined \/ m \in h.seen THEN h
             ELSE LET h1 == [h EXCEPT !.seen = @ \cup {m}]
                      d == Decode(adv.data)
                  IN  IF d.kind # "null"
                      THEN [h1 EXCEPT !.step.emitted = Append(@, d)]
                      ELSE h1

\* startScanning with the fallbacks taken only for undefined fields
StartScanningNullish(h, options) ==
    IF h.scanning THEN h
    ELSE LET h1 == [h EXCEPT !.scanning = TRUE]
             interval == OrNullish(OptInterval(options), DefaultInterval)
             duration == OrNullish(OptDuration(options), DefaultDuration)
         IN  IF h.poweredOn
             THEN ArmInterval(SampleAdvertisements(h1, duration), interval, duration)
             ELSE [h1 EXCEPT !.closures =
                       Append(@, [interval |-> interval, duration |-> duration])]

\* startScanning without its `if (this.scanning) return`
StartScanningUnguarded(h, options) ==
    LET h1 == [h EXCEPT !.scanning = TRUE]
        interval == OrElse(OptInterval(options), DefaultInterval)
        duration == OrElse(OptDuration(options), DefaultDuration)
    IN  IF h.poweredOn
        THEN ArmInterval(SampleAdvertisements(h1, duration), interval, duration)
        ELSE [h1 EXCEPT !.closures =
                  Append(@, [interval |-> interval, duration |-> duration])]

StartScanningBody(h, options) ==
    IF h.scanning THEN h
    ELSE LET h1 == [h EXCEPT !.scanning = TRUE]
             interval == OrElse(OptInterval(options), DefaultInterval)
             duration == OrElse(OptDuration(options), DefaultDuration)
         IN  IF h.poweredOn
             THEN ArmInterval(SampleAdvertisements(h1, duration), interval, duration)
             ELSE [h1 EXCEPT !.closures =
                       Append(@, [interval |-> interval, duration |-> duration])]

StopScanningBody(h) ==
    IF ~h.scanning THEN h
    ELSE LET h1 == [h EXCEPT !.scanning = FALSE]
             h2 == IF h1.scanInterval # 0
                   THEN [h1 EXCEPT !.intervals = RemoveAt(@, h1.scanInterval),
                                   !.scanInterval = 0]
                   ELSE h1
         IN  IF h2.scanDuration # 0
             THEN [h2 EXCEPT !.timeouts = IF h2.scanDuration > 0
                                          THEN RemoveAt(@, h2.scanDuration) ELSE @,
                             !.scanDuration = 0]
             ELSE h2

\* noble.emit('discover', peripheral) to the singleton's registrations, in order
RECURSIVE HubEmitDiscover(_, _, _)
HubEmitDiscover(h, listeners, adv) ==
    IF Len(listeners) = 0 THEN h
    ELSE HubEmitDiscover(IF listeners[1] = Hub THEN OnBleDiscover(h, adv) ELSE h,
                         Tail(listeners), adv)

\* noble.emit('stateChange', state) to the singleton's closures, in order
RECURSIVE HubEmitStateChange(_, _, _)
HubEmitStateChange(h, closures, state) ==
    IF Len(closures) = 0 THEN h
    ELSE HubEmitStateChange(HubOnStateChange(h, closures[1], state), Tail(closures), state)

HubFrame == UNCHANGED <<decoderVars, orchVars, stateListeners,
                        stopReturned, windowCalls, delivered, oldTimers, staleTimers>>

\* SwitchBotHub2.startScanning(options)
StartScanning(options) ==
    /\ hubPoweredOn => /\ Len(hubTimeouts) < MaxTimers
                       /\ Len(hubIntervals) < MaxIntervals
                       /\ Len(discoverListeners) < MaxTimers
    /\ ~hubPoweredOn /\ ~hubScanning => Len(hubStateListeners) < MaxIntervals
    /\ HubBecomes([StartScanningBody(HubNow, options) EXCEPT !.step.options = options])
    /\ lastOp' = Op("startScanning", Hub, NoData, "")
    /\ UNCHANGED adapterState
    /\ HubFrame

\* SwitchBotHub2.stopScanning()
StopScanning ==
    /\ HubBecomes(StopScanningBody(HubNow))
    /\ lastOp' = Op("stopScanning", Hub, NoData, "")
    /\ UNCHANGED adapterState
    /\ HubFrame

\* the live interval timer k fires: sampleAdvertisements(duration)
HubIntervalTick(k) ==
    /\ k \in DOMAIN hubIntervals
    /\ Len(hubTimeouts) < MaxTimers
    /\ Len(discoverListeners) < MaxTimers
    /\ HubBecomes(SampleAdvertisements(HubNow, hubIntervals[k].duration))
    /\ lastOp' = Op("hubTick", Hub, NoData, "")
    /\ UNCHANGED adapterState
    /\ HubFrame

\* the pending window timer k fires
HubWindowTimeout(k) ==
    /\ k \in DOMAIN hubTimeouts
    /\ HubBecomes(HubWindowEnd(HubNow, k))
    /\ lastOp' = Op("hubTimeout", Hub, NoData, "")
    /\ UNCHANGED adapterState
    /\ HubFrame

\* the adapter reports a power state to the singleton's closures
HubStateChange(state) ==
    /\ state = "poweredOn" =>
           /\ Len(hubTimeouts) + Len(hubStateListeners) <= MaxTimers
           /\ Len(discoverListeners) + Len(hubStateListeners) <= MaxTimers
           /\ Len(hubIntervals) + Len(hubStateListeners) <= MaxIntervals
    /\ adapterState' = state
    /\ HubBecomes(HubEmitStateChange(HubNow, hubStateListeners, state))
    /\ lastOp' = Op("stateChange", Hub, NoData, state)
    /\ HubFrame

\* the adapter reports an advertisement to the singleton's registrations
HubDiscover(adv) ==
    /\ HubBecomes(HubEmitDiscover(HubNow, discoverListeners, adv))
    /\ lastOp' = Op("discover", Hub, adv, "")
    /\ UNCHANGED adapterState
    /\ HubFrame

(***************************************************************************)
(* Decoder harness actions.                                                *)
(***************************************************************************)
CallDecode ==
    /\ decoded = NotCalled
    /\ decoded' = Decode(input)
    /\ UNCHANGED <<input, mac, nobleVars, orchVars, hubVars, obsVars>>

CallExtractMac ==
    /\ mac = Pending
    /\ mac' = ExtractMac(input)
    /\ UNCHANGED <<input, decoded, nobleVars, orchVars, hubVars, obsVars>>

(***************************************************************************)
(* Specifications.                                                         *)
(***************************************************************************)
NobleInit ==
    /\ discoverListeners = <<>>
    /\ stateListeners = <<>>
    /\ adapterScanning = FALSE
    /\ adapterState = "unknown"

OrchInit ==
    /\ started = [o \in Orchs |-> FALSE]
    /\ intervalArmed = [o \in Orchs |-> FALSE]
    /\ windowTimers = [o \in Orchs |-> 0]
    /\ seenDevices = [o \in Orchs |-> {}]
    /\ stopReturned = [o \in Orchs |-> FALSE]
    /\ windowCalls = [o \in Orchs |-> <<>>]
    /\ delivered = [o \in Orchs |-> <<>>]
    /\ oldTimers = [o \in Orchs |-> 0]
    /\ staleTimers = [o \in Orchs |-> 0]
    /\ lastOp = [op |-> "none", orch |-> 0, adv |-> NoData, state |-> "",
                 repeated |-> FALSE]

\* the singleton as the module's export constructs it
HubInit ==
    /\ hubScanning = FALSE
    /\ hubPoweredOn = FALSE
    /\ hubSeen = {}
    /\ hubIntervals = <<>>
    /\ hubScanInterval = 0
    /\ hubTimeouts = <<>>
    /\ hubScanDuration = 0
    /\ hubStateListeners = <<>>
    /\ hubStep = Idle

\* the decoder applied to every buffer of Inputs
DecoderInit ==
    /\ input \in Inputs
    /\ decoded = NotCalled
    /\ mac = Pending
    /\ NobleInit
    /\ OrchInit
    /\ HubInit

DecoderNext == CallDecode \/ CallExtractMac

DecoderSpec == DecoderInit /\ [][DecoderNext]_vars

\* one startSensorSampling call and the adapter's events
Init ==
    /\ input = <<>>
    /\ decoded = NotCalled
    /\ mac = Pending
    /\ NobleInit
    /\ OrchInit
    /\ HubInit

Next ==
    \/ \E o \in Solo : StartSensorSampling(o)
    \/ \E o \in Solo : IntervalTick(o)
    \/ \E o \in Solo : WindowTimeout(o)
    \/ \E o \in Solo : Stop(o)
    \/ \E state \in AdapterStates : StateChange(state)
    \/ \E adv \in Advertisements : Discover(adv)

Spec == Init /\ [][Next]_vars

\* the same with fair timers: a pending window timer fires in the end
FairSpec == Spec /\ \A o \in Solo : WF_vars(WindowTimeout(o))

\* the same with scanDurationMs <= intervalMs: a window timer set up no later than
\* one interval tick fires before the next tick of that interval
TimedIntervalTick(o) == oldTimers[o] = 0 /\ IntervalTick(o)

TimedNext ==
    \/ \E o \in Solo : StartSensorSampling(o)
    \/ \E o \in Solo : TimedIntervalTick(o)
    \/ \E o \in Solo : WindowTimeout(o)
    \/ \E o \in Solo : Stop(o)
    \/ \E state \in AdapterStates : StateChange(state)
    \/ \E adv \in Advertisements : Discover(adv)

TimedSpec == Init /\ [][TimedNext]_vars

\* two startSensorSampling calls in one process, on the one adapter
DuoAdvertisements == {Adv(Sample1), Adv(Sample2)}

DuoNext ==
    \/ \E o \in Orchs : StartSensorSampling(o)
    \/ \E o \in Orchs : IntervalTick(o)
    \/ \E o \in Orchs : WindowTimeout(o)
    \/ \E o \in Orchs : Stop(o)
    \/ \E state \in AdapterStates : StateChange(state)
    \/ \E adv \in DuoAdvertisements : Discover(adv)

DuoSpec == Init /\ [][DuoNext]_vars

\* the singleton scanner and the adapter's events
HubAdvertisements == {Adv(Sample1), Adv(Subarray(Sample1, 0, 10))}

HubNext ==
    \/ \E options \in ScanOptions : StartScanning(options)
    \/ StopScanning
    \/ \E k \in 1..MaxIntervals : HubIntervalTick(k)
    \/ \E k \in 1..MaxTimers : HubWindowTimeout(k)
    \/ \E state \in AdapterStates : HubStateChange(state)
    \/ \E adv \in HubAdvertisements : HubDiscover(adv)

HubSpec == Init /\ [][HubNext]_vars

(***************************************************************************)
(* Properties of the decoder, checked under DecoderSpec.                   *)
(***************************************************************************)
Abs(x) == IF x < 0 THEN -x ELSE x

\* the byte at original offset n of the buffer under test
B(n) == input[n + 1]

\* the buffer under test passes decode's validation
Accepted == Len(input) >= 18 /\ B(0) = 105 /\ B(1) = 9

\* the signed Celsius value of the buffer under test, in tenths of a degree
Tenths == (IF B(16) >= 128 THEN 1 ELSE -1) * (10 * (B(16) % 128) + (B(15) % 16))

\* C1: decode returns null (and so returns normally) for every buffer of length
\* 0..17 and for every buffer whose first two bytes are not 0x69 0x09.
C1_RejectsShortOrForeign ==
    (decoded # NotCalled
     /\ (Len(input) <= 17 \/ (Len(input) >= 2 /\ <<B(0), B(1)>> # <<105, 9>>)))
    => decoded = Null

\* a 17-byte buffer with the right manufacturer ID has been rejected
C1_Witness == Len(input) = 17 /\ B(0) = 105 /\ B(1) = 9 /\ decoded = Null

C4_FahrenheitRounded ==
    (decoded # NotCalled /\ Accepted) =>
        /\ decoded.kind = "reading"
        /\ 2 * Abs(10 * decoded.temperatureF - (18 * Tenths + 3200)) <= 10

\* a Fahrenheit value below zero that had to be rounded away from the cut
C4_Witness ==
    /\ decoded.kind = "reading"
    /\ decoded.temperatureF < 0
    /\ (18 * Tenths + 3200) % 10 = 2

\* C5: extractMac returns undefined for a buffer shorter than 8 bytes, and
\* otherwise six two-digit lowercase hex octets joined by colons, the octets
\* being bytes 2..7 of the buffer in order.
C5_MacFormat ==
    mac # Pending =>
        IF Len(input) < 8 THEN mac = Undefined
        ELSE /\ Len(mac) = 17
             /\ \A k \in 0..5 :
                    /\ \E hi, lo \in 0..15 :
                           /\ mac[3 * k + 1] = HexDigits[hi + 1]
                           /\ mac[3 * k + 2] = HexDigits[lo + 1]
                           /\ 16 * hi + lo = B(k + 2)
                    /\ k < 5 => mac[3 * k + 3] = ":"

\* a MAC whose first byte is below 0x10 has been rendered with a leading zero
C5_Witness ==
    /\ mac # Pending
    /\ Len(input) >= 8
    /\ B(2) < 16
    /\ mac[1] = "0"

\* C6: every Reading has humidityPercent in 0..127 and lightLevel in 0..31.
C6_Ranges ==
    decoded.kind = "reading" =>
        /\ decoded.humidityPercent \in 0..127
        /\ decoded.lightLevel \in 0..31

\* a Reading at the top of both ranges, from bytes with all bits set
C6_Witness ==
    /\ decoded.kind = "reading"
    /\ B(14) = 255 /\ B(17) = 255
    /\ decoded.humidityPercent = 127
    /\ decoded.lightLevel = 31

(***************************************************************************)
(* Properties of startSensorSampling, checked under Spec.                  *)
(***************************************************************************)
NoDuplicateCalls ==
    \A o \in Orchs : \A i, j \in DOMAIN windowCalls[o] :
        i # j => windowCalls[o][i] # windowCalls[o][j]

FreshMacIsDelivered ==
    \A o \in Orchs : \A adv \in Advertisements :
        ( /\ lastOp'.op = "discover"
          /\ lastOp'.adv = adv
          /\ o \in Range(discoverListeners)
          /\ adv.present
          /\ Decode(adv.data).kind = "reading"
          /\ ExtractMac(adv.data) \notin seenDevices[o] )
        => delivered'[o] = <<Decode(adv.data)>>

\* C7: within one scan window (between two clearings of the seen set) the
\* callback is invoked at most once per MAC, and a discovery event with a
\* decodable buffer and a MAC not yet seen does invoke it, once.
C7_OncePerMacPerWindow == []NoDuplicateCalls /\ [][FreshMacIsDelivered]_vars

\* two MACs have had their callback in this window, and a further event for the
\* first MAC has just been delivered to the listener without a callback
C7_Witness ==
    /\ Len(windowCalls[1]) = 2
    /\ 1 \in Range(discoverListeners)
    /\ lastOp.op = "discover"
    /\ lastOp.adv = Adv(Sample3)
    /\ delivered[1] = <<>>

\* C8: once stop has returned, no step invokes the callback.
C8_SilentAfterStop ==
    \A o \in Orchs : stopReturned[o] => delivered[o] = <<>>

\* C9: right after stop returns, the interval timer is cleared, the adapter has
\* been told to stop scanning and no discovery listener is registered.
C9_StopReleases ==
    lastOp.op = "stop" =>
        /\ ~intervalArmed[lastOp.orch]
        /\ ~adapterScanning
        /\ discoverListeners = <<>>

\* stop has just returned while two windows were open
C9_Witness ==
    /\ lastOp.op = "stop"
    /\ windowTimers[1] = 2

\* C10: a call of stop right after a call of stop changes nothing: timer,
\* listener registrations, adapter command state and seen set stay as they are.
C10_StopIdempotent ==
    [][(lastOp'.op = "stop" /\ lastOp'.repeated) => UNCHANGED <<nobleVars, orchVars>>]_vars

\* stop has been called twice in a row while a window timer was pending
C10_Witness ==
    /\ lastOp.op = "stop"
    /\ lastOp.repeated
    /\ windowTimers[1] > 0

\* the number of times x occurs in the sequence seq
Count(seq, x) == Cardinality({ i \in DOMAIN seq : seq[i] = x })

\* C11: when a decodable advertisement of a MAC has been delivered to an
\* orchestrator's registered listener, the callback has been invoked for that
\* MAC exactly once in the current window, whatever else was delivered before.
C11_OncePerDecodableMac ==
    \A o \in Orchs :
        ( /\ lastOp.op = "discover"
          /\ lastOp.adv.present
          /\ Decode(lastOp.adv.data).kind = "reading"
          /\ o \in Range(discoverListeners) )
        => Count(windowCalls[o], ExtractMac(lastOp.adv.data)) = 1

\* C12: a scan window is opened (by the interval timer or by the stateChange
\* listener) only while the adapter's last reported state is poweredOn.
C12_WindowsOnlyWhilePoweredOn ==
    ( \/ lastOp.op = "tick"
      \/ lastOp.op = "stateChange" /\ lastOp.state = "poweredOn" /\ stateListeners # <<>> )
    => adapterState = "poweredOn"

\* C13: with scanDurationMs <= intervalMs at most one window is open at any
\* moment: one registration of the listener and one pending window timer.
C13_NoOverlap ==
    \A o \in Orchs :
        /\ windowTimers[o] <= 1
        /\ Count(discoverListeners, o) <= 1

\* C14: two orchestrators do not interfere: a stop of one, or the end of one's
\* window, leaves the other's listener registrations as they are, and a
\* decodable advertisement of a MAC the other has not seen, arriving while the
\* other has a window open, reaches the other's callback.
C14_Independent ==
    /\ [][\A o \in Orchs :
            (lastOp'.op \in {"stop", "timeout"} /\ lastOp'.orch # o)
            => Count(discoverListeners', o) = Count(discoverListeners, o)]_vars
    /\ [][\A o \in Orchs : \A adv \in DuoAdvertisements :
            ( /\ lastOp'.op = "discover"
              /\ lastOp'.adv = adv
              /\ windowTimers[o] > 0
              /\ ~stopReturned[o]
              /\ ExtractMac(adv.data) \notin seenDevices[o] )
            => delivered'[o] = <<Decode(adv.data)>>]_vars

\* the periodic trigger and the immediate window a startScanning step must
\* produce for an interval and a duration
ArmsWith(interval, duration) ==
    /\ hubStep'.sampled = <<duration>>
    /\ hubStep'.armed = <<[interval |-> interval, duration |-> duration]>>
    /\ hubIntervals' = Append(hubIntervals, [interval |-> interval, duration |-> duration])
    /\ hubScanInterval' = Len(hubIntervals')

\* a field the caller provided, as provided; the default for an omitted one
AsProvided(value, fallback) == IF value = None THEN fallback ELSE value[1]

\* a field the caller provided and that is not 0, as provided; else the default
NonZeroAsProvided(value, fallback) ==
    IF value \in {None, Some(0)} THEN fallback ELSE value[1]

\* C15 as stated: whenever the singleton knows the adapter is powered on, a
\* startScanning call performs one immediate window and arms the periodic
\* trigger with the caller's interval and duration as provided, and with
\* 15000 and 3000 for omitted options or fields.
C15_OptionsAsProvided ==
    [][\A options \in ScanOptions :
         (lastOp'.op = "startScanning" /\ hubStep'.options = options /\ hubPoweredOn)
         => ArmsWith(AsProvided(OptInterval(options), 15000),
                     AsProvided(OptDuration(options), 3000))]_vars

\* C15 amended: when the singleton is not already scanning and knows the
\* adapter is powered on, startScanning performs one immediate window and arms
\* the periodic trigger with the caller's interval and duration where they are
\* provided and not 0, and with 15000 and 3000 for omitted options, omitted
\* fields and fields that are 0.
C15_NonZeroOptionsAsProvided ==
    [][\A options \in ScanOptions :
         (lastOp'.op = "startScanning" /\ hubStep'.options = options
          /\ hubPoweredOn /\ ~hubScanning)
         => ArmsWith(NonZeroAsProvided(OptInterval(options), 15000),
                     NonZeroAsProvided(OptDuration(options), 3000))]_vars

C15_Witness ==
    /\ lastOp.op = "startScanning"
    /\ hubPoweredOn
    /\ hubStep.options = Some([interval |-> Some(10000), duration |-> Some(500)])
    /\ hubStep.sampled = <<500>>
    /\ hubStep.armed = <<[interval |-> 10000, duration |-> 500]>>

ReadingFields ==
    {"kind", "temperatureC", "temperatureF", "humidityPercent", "lightLevel", "macAddress"}

\* C18: decode returns a complete Reading, with a macAddress that is not
\* undefined, exactly for the buffers of length >= 18 that start with 0x69 0x09,
\* and null for all others; a buffer of length >= 18 always has its 3
\* temperature bytes, so the defensive rejection is never taken.
C18_ReadingIffAccepted ==
    decoded # NotCalled =>
        /\ Accepted <=> (/\ decoded.kind = "reading"
                         /\ DOMAIN decoded = ReadingFields
                         /\ decoded.macAddress # Undefined)
        /\ ~Accepted <=> decoded = Null
        /\ Len(input) >= 18 =>
               Len(Subarray(Subarray(input, 2, Len(input)), 13, 16)) = 3

\* a buffer of exactly 18 bytes has decoded to a Reading with a MAC address
C18_Witness ==
    /\ Len(input) = 18
    /\ decoded.kind = "reading"
    /\ Len(decoded.macAddress) = 17

(***************************************************************************)
(* Further properties of startSensorSampling.                              *)
(***************************************************************************)
\* the advertisement's buffer is present and starts with 0x69 0x09
Matches(adv) ==
    adv.present /\ Len(adv.data) >= 2 /\ adv.data[1] = 105 /\ adv.data[2] = 9

\* a step that invokes the callback of o is the processing of a discovery
\* event whose buffer is present, starts with 6909, has at least 18 bytes and
\* a MAC that was not seen, and the callback gets decode's Reading of it
CallbackFromFreshDecodedEvent(o) ==
    delivered'[o] # <<>> =>
        /\ lastOp'.op = "discover"
        /\ Matches(lastOp'.adv)
        /\ Len(lastOp'.adv.data) >= 18
        /\ ExtractMac(lastOp'.adv.data) \notin seenDevices[o]
        /\ Decode(lastOp'.adv.data).kind = "reading"
        /\ delivered'[o] = <<Decode(lastOp'.adv.data)>>

\* a discovery event without data or with another prefix is dropped
ForeignEventDropped(o) ==
    (lastOp'.op = "discover" /\ ~Matches(lastOp'.adv)) =>
        /\ delivered'[o] = <<>>
        /\ seenDevices'[o] = seenDevices[o]

\* C19: every invocation of the callback carries the Reading decode produced
\* from the buffer of the discovery event being processed, that buffer being
\* present, starting with 6909, of length >= 18 and with a MAC not in the seen
\* set when the event arrived; an event with absent data or a non-matching
\* prefix invokes no callback and leaves the seen set unchanged.
C19_CallbackCarriesDecodedEvent ==
    [][\A o \in Orchs : CallbackFromFreshDecodedEvent(o) /\ ForeignEventDropped(o)]_vars

\* the callback has just been invoked for a second MAC of the window
C19_Witness ==
    /\ lastOp.op = "discover"
    /\ lastOp.adv = Adv(Sample2)
    /\ delivered[1] = <<Decode(Sample2)>>
    /\ seenDevices[1] = {ExtractMac(Sample1), ExtractMac(Sample2)}

\* again and again no window timer is pending or one has just fired: with the
\* timers firing in the order they were set up, every opened window is closed
WindowsGetClosed ==
    \A o \in Solo : []<>(windowTimers[o] = 0 \/ (lastOp.op = "timeout" /\ lastOp.orch = o))

C21_StaleTimerHarmless ==
    [][\A o \in Solo :
         (lastOp'.op = "timeout" /\ lastOp'.orch = o /\ staleTimers[o] > 0) =>
             /\ delivered'[o] = <<>>
             /\ discoverListeners = <<>>
             /\ discoverListeners' = discoverListeners
             /\ stateListeners' = stateListeners
             /\ intervalArmed' = intervalArmed
             /\ windowTimers'[o] = windowTimers[o] - 1
             /\ seenDevices' = seenDevices
             /\ ~adapterScanning /\ ~adapterScanning']_vars

\* C22: after any sequence of state changes, interval ticks, window-timer
\* firings, discovery events and stop calls, the number of registrations of an
\* orchestrator's discovery listener never exceeds the number of its pending
\* window timers.
C22_ListenersWithinTimers ==
    \A o \in Orchs : Count(discoverListeners, o) <= windowTimers[o]

\* two registrations with two pending timers, after a power-state change, a
\* discovery event and a stop call
C22_Witness ==
    /\ Count(discoverListeners, 1) = 2
    /\ windowTimers[1] = 2
    /\ stopReturned[1]
    /\ seenDevices[1] # {}

(***************************************************************************)
(* Numerical properties of decode, checked under DecoderSpec.              *)
(***************************************************************************)
\* C23: for every accepted buffer the low nibble of the byte at offset 15
\* contributes less than one whole degree: the integer part of |temperatureC|
\* is b16 & 0x7F, and |temperatureC| <= 127.9.
C23_NibbleBelowOneDegree ==
    (decoded # NotCalled /\ Accepted) =>
        /\ decoded.kind = "reading"
        /\ Abs(decoded.temperatureC) \div 10 = B(16) % 128
        /\ Abs(decoded.temperatureC) <= 1279

\* a value in hundredths rounded to the nearest tenth, a tie away from zero
RoundTenth(h) == (IF h < 0 THEN -1 ELSE 1) * ((Abs(h) + 5) \div 10)

\* C24: for every accepted buffer temperatureF, computed from the unrounded
\* Celsius value and rounded to one decimal, equals the value obtained by
\* converting the rounded temperatureC and rounding; 18*t + 3200 hundredths is
\* never a rounding tie.
C24_RoundingOrderIrrelevant ==
    (decoded # NotCalled /\ Accepted) =>
        /\ decoded.kind = "reading"
        /\ decoded.temperatureF = RoundTenth(18 * Tenths + 3200)
        /\ RoundTenth(18 * Tenths + 3200) = RoundTenth(18 * decoded.temperatureC + 3200)
        /\ (18 * Tenths + 3200) % 10 # 5

\* a Fahrenheit value that was rounded up, from a nibble above 9
C24_Witness ==
    /\ decoded.kind = "reading"
    /\ B(16) >= 128
    /\ B(15) % 16 > 9
    /\ (18 * Tenths + 3200) % 10 = 8
    /\ 10 * decoded.temperatureF = 18 * Tenths + 3200 + 2

(***************************************************************************)
(* Properties of the singleton scanner, checked under HubSpec.             *)
(***************************************************************************)
\* the adapter and every field of the singleton stay as they are
HubUntouched ==
    UNCHANGED <<nobleVars, hubScanning, hubPoweredOn, hubSeen, hubIntervals,
                hubScanInterval, hubTimeouts, hubScanDuration, hubStateListeners>>

\* C25: startScanning while isScanning() is true changes nothing (no new
\* stateChange subscription, no timer, no scan window), stopScanning while
\* isScanning() is false changes nothing, and isScanning() is true exactly from
\* a startScanning call until the next stopScanning call.
C25_ScanningFlagGuards ==
    [][/\ (lastOp'.op = "startScanning" /\ hubScanning) =>
              HubUntouched /\ hubStep'.armed = <<>> /\ hubStep'.sampled = <<>>
       /\ (lastOp'.op = "stopScanning" /\ ~hubScanning) => HubUntouched
       /\ lastOp'.op = "startScanning" => hubScanning'
       /\ lastOp'.op = "stopScanning" => ~hubScanning'
       /\ lastOp'.op \notin {"startScanning", "stopScanning"} =>
              hubScanning' = hubScanning]_vars

\* startScanning has just been called a second time in a row, with options,
\* on a scanner that knows the adapter is powered on
C25_Witness ==
    /\ lastOp.op = "startScanning"
    /\ lastOp.repeated
    /\ hubScanning
    /\ hubPoweredOn
    /\ hubStep.options = Some([interval |-> Some(10000), duration |-> Some(500)])
    /\ hubStep.armed = <<>>

\* C26: for every sequence of startScanning, stopScanning and stateChange
\* events, at most one periodic scan timer is live at any time, the live one
\* is the one recorded in scanInterval, and none is live after stopScanning
\* returns.
C26_OneScanTimer ==
    /\ Len(hubIntervals) <= 1
    /\ hubIntervals # <<>> => hubScanInterval = Len(hubIntervals)
    /\ lastOp.op = "stopScanning" => hubIntervals = <<>>

\* C27: after stopScanning returns and until startScanning is called again, no
\* 'data' event is emitted for a discovery event, and every registration of
\* the scanner's discover listener has a pending window timer that will
\* remove it; also when stopScanning was called while a window was open or
\* when the adapter reports powered-on after the stop.
C27_QuietAfterStopScanning ==
    ~hubScanning =>
        /\ hubStep.emitted = <<>>
        /\ Count(discoverListeners, Hub) <= Len(hubTimeouts)

====
